---- MODULE Spec2Model ----
(***************************************************************************)
(* client-dag: Kahn level assignment (src/dag/traversal.ts) and the        *)
(* level-by-level bounded-concurrency executor (src/dag/executor.ts).      *)
(*                                                                         *)
(* An item map is a sequence of dependency lists: the item with key k is   *)
(* the k-th entry inserted into the Map, so 1..Len(nodes) is the Map's     *)
(* iteration order.  Every other identifier is outside the map.            *)
(***************************************************************************)
EXTENDS Integers, Sequences, FiniteSets, TLC

VARIABLES
    nodes,          \* the item map: key -> dependency list
    level,          \* key -> the item's level field (Undefined when unset)
    pc,             \* position of the program
    inDegree,       \* buildLeveledDAG: inDegree map
    dependents,     \* buildLeveledDAG: dependents map (key -> ordered set)
    queue,          \* buildLeveledDAG: queue
    levels,         \* buildLeveledDAG: levels (and dag.levels once returned)
    nodeLevel,      \* buildLeveledDAG: nodeLevel map
    processedCount, \* buildLeveledDAG: processedCount
    cycleNodes,     \* identifiers listed by the thrown Error
    roots,          \* dag.roots
    leaves,         \* dag.leaves
    order,          \* the array getTopologicalOrder returned
    api,            \* the executor entry point that was called
    callOptions,    \* the options object the caller passed
    concurrency,    \* executeDAG: destructured option
    failFast,       \* executeDAG: destructured option
    results,        \* executeDAG: results map (key -> kind of Node Result)
    failedNodes,    \* executeDAG: failedNodes
    shouldStop,     \* executeDAG: shouldStop
    lvl,            \* executeDAG: index of the level the for-of loop is at
    idx,            \* executeWithConcurrency: index of the next item to dispatch
    executing,      \* executeWithConcurrency: executing set (key -> task state)
    levelResults,   \* executeWithConcurrency: results array
    awaited,        \* the Promise.race / Promise.all the dispatcher awaits
    started,        \* key -> number of processor invocations
    onStart,        \* key -> number of onNodeStart calls
    onComplete,     \* key -> number of onNodeComplete calls
    produced,       \* key -> kind of the Node Result its task returned
    processor,      \* the processor passed: the caller's own or createProcessor(fn)
    detail,         \* key -> success, error message and logs of its Node Result
    trace,          \* key -> the callbacks and invocations made for the item
    invoked,        \* the items in the order their work was invoked
    dagResult,      \* the DAGResult executeDAG returned
    builderCall,    \* the builder utility called, its argument and its result
    calls,          \* two executeDAG calls on one graph: call -> its locals
    before,         \* key -> the item's level field before buildLeveledDAG
    filteredDag     \* buildLeveledDAG called on the map filterDAGFromRoot returned

assignVars == <<nodes, level, inDegree, dependents, queue, levels, nodeLevel,
                processedCount, cycleNodes, roots, leaves, order>>

execVars == <<api, callOptions, concurrency, failFast, results, failedNodes,
              shouldStop, lvl, idx, executing, levelResults, awaited, started,
              onStart, onComplete, produced, processor, detail, trace,
              invoked, dagResult>>

otherVars == <<builderCall, calls, before, filteredDag>>

vars == <<nodes, level, pc, inDegree, dependents, queue, levels, nodeLevel,
          processedCount, cycleNodes, roots, leaves, order, api, callOptions,
          concurrency, failFast, results, failedNodes, shouldStop, lvl, idx,
          executing, levelResults, awaited, started, onStart, onComplete,
          produced, processor, detail, trace, invoked, dagResult, builderCall,
          calls, before, filteredDag>>

----------------------------------------------------------------------------
(* Bounds of the model *)

MaxNodes == 3
MaxEdges == 3
MaxConcurrency == 2
MaxWide == 5
MaxCallNodes == 2
MaxLiveNodes == 2

Undefined == 0 - 1

----------------------------------------------------------------------------
(* Inputs: createNode / buildNodeMap *)

Range(s) == {s[i] : i \in 1..Len(s)}

KeySeq(n) == [i \in 1..n |-> i]

\* identifiers a dependency list may name; 0 is never a key
DepIds == 0..MaxNodes

SeqsUpTo(S, k) == UNION {[1..m -> S] : m \in 0..k}

\* createNode(id, dependencies): every dependency list of at most e entries
createNode(e) == SeqsUpTo(DepIds, e)

\* buildNodeMap: the maps of n items whose lists hold at most e entries in all
RECURSIVE buildNodeMap(_, _)
buildNodeMap(n, e) ==
    IF n = 0 THEN {<<>>}
    ELSE UNION {{Append(m, l) : m \in buildNodeMap(n - 1, e - Len(l))} :
                    l \in createNode(e)}

NodeMaps == UNION {buildNodeMap(n, MaxEdges) : n \in 0..MaxNodes}

\* wide maps: up to MaxWide items without dependencies, the last of which may
\* depend on the first
WideMaps ==
    {[k \in 1..n |-> IF k = n /\ onFirst THEN <<1>> ELSE <<>>] :
        n \in 1..MaxWide, onFirst \in BOOLEAN}

\* the maps whose dependency lists name map keys only, each once, in key order
\* (the executor never reads a dependency list, and buildLeveledDAG does not
\* depend on the order of a list)
PlainNodeMaps ==
    {m \in NodeMaps :
        \A k \in 1..Len(m) :
            /\ \A j \in 1..Len(m[k]) : m[k][j] \in 1..Len(m)
            /\ \A j \in 1..Len(m[k]) - 1 : m[k][j] < m[k][j + 1]}

----------------------------------------------------------------------------
(* buildLeveledDAG *)

Has(ns, id) == id \in 1..Len(ns)

\* the in-map filter also dropping a dependency of an item on itself
depsInDagNoSelf(ns, name) ==
    SelectSeq(ns[name], LAMBDA dep : Has(ns, dep) /\ dep # name)

\* lines 28 and 90: node.dependencies.filter((dep) => nodes.has(dep))
depsInDag(ns, name) == SelectSeq(ns[name], LAMBDA dep : Has(ns, dep))

\* Set.prototype.add on an insertion-ordered set
SetAdd(s, x) == IF x \in Range(s) THEN s ELSE Append(s, x)

\* the in-degree counting every entry of the dependency list
InitialInDegreeAll(ns) == [name \in 1..Len(ns) |-> Len(ns[name])]

\* lines 27-31
InitialInDegree(ns) == [name \in 1..Len(ns) |-> Len(depsInDag(ns, name))]

RECURSIVE AddDependents(_, _, _, _)
AddDependents(ns, name, i, dm) ==
    IF i > Len(ns[name]) THEN dm
    ELSE LET dep == ns[name][i]
         IN  AddDependents(ns, name, i + 1,
                 IF dep \in DOMAIN dm
                 THEN [dm EXCEPT ![dep] = SetAdd(@, name)]
                 ELSE dm)

RECURSIVE BuildDependents(_, _, _)
BuildDependents(ns, name, dm) ==
    IF name > Len(ns) THEN dm
    ELSE BuildDependents(ns, name + 1, AddDependents(ns, name, 1, dm))

InitialQueue(deg) == SelectSeq(KeySeq(Len(deg)), LAMBDA name : deg[name] = 0)

\* lines 64-71: the dependents of one processed item
RECURSIVE Decrement(_, _, _)
Decrement(ds, i, st) ==
    IF i > Len(ds) THEN st
    ELSE LET dependent == ds[i]
             newDegree == st.inDegree[dependent] - 1
         IN  Decrement(ds, i + 1,
                 [inDegree  |-> [st.inDegree EXCEPT ![dependent] = newDegree],
                  nextQueue |-> IF newDegree = 0
                                THEN Append(st.nextQueue, dependent)
                                ELSE st.nextQueue])

\* levels.unshift(levelNodes) in place of push
PushLevelFirst(lv, levelNodes) == <<levelNodes>> \o lv

\* line 74: levels.push(levelNodes)
PushLevel(lv, levelNodes) == Append(lv, levelNodes)

\* the Error listing every key
CycleNodesAll(ns, nl) == KeySeq(Len(ns))

\* line 79: the identifiers the Error lists
CycleNodesOf(ns, nl) ==
    SelectSeq(KeySeq(Len(ns)), LAMBDA n : nl[n] = Undefined)

\* lines 57-72: one pass over the queue
RECURSIVE ProcessQueue(_, _, _, _)
ProcessQueue(q, i, dm, st) ==
    IF i > Len(q) THEN st
    ELSE ProcessQueue(q, i + 1, dm, Decrement(dm[q[i]], 1, st))

\* roots taken to be the items without in-graph dependencies
RootsOfNoDependencies(ns, dm) ==
    SelectSeq(KeySeq(Len(ns)), LAMBDA name : Len(depsInDag(ns, name)) = 0)

\* lines 83-86
RootsOf(ns, dm) ==
    SelectSeq(KeySeq(Len(ns)), LAMBDA name : Len(dm[name]) = 0)

\* leaves taken to be the items with an empty dependency list
LeavesOfNoEntries(ns) ==
    SelectSeq(KeySeq(Len(ns)), LAMBDA name : Len(ns[name]) = 0)

\* lines 88-92
LeavesOf(ns) ==
    SelectSeq(KeySeq(Len(ns)), LAMBDA name : Len(depsInDag(ns, name)) = 0)

\* lines 52-76: the while loop run to its end
RECURSIVE WhileLoop(_, _)
WhileLoop(dm, st) ==
    IF Len(st.queue) = 0 THEN st
    ELSE LET p == ProcessQueue(st.queue, 1, dm,
                               [inDegree |-> st.inDegree, nextQueue |-> <<>>])
         IN  WhileLoop(dm, [queue          |-> p.nextQueue,
                            inDegree       |-> p.inDegree,
                            levels         |-> PushLevel(st.levels, st.queue),
                            processedCount |-> st.processedCount + Len(st.queue)])

\* lines 21-95: buildLeveledDAG as a function of the item map
LeveledDAG(ns) ==
    LET deg == InitialInDegree(ns)
        dm == BuildDependents(ns, 1, [k \in 1..Len(ns) |-> <<>>])
        st == WhileLoop(dm, [queue |-> InitialQueue(deg), inDegree |-> deg,
                             levels |-> <<>>, processedCount |-> 0])
    IN  IF st.processedCount # Len(ns)
        THEN [thrown |-> TRUE, levels |-> st.levels, roots |-> <<>>,
              leaves |-> <<>>]
        ELSE [thrown |-> FALSE, levels |-> st.levels, roots |-> RootsOf(ns, dm),
              leaves |-> LeavesOf(ns)]

\* no Node Result yet / no DAGResult yet
NoDetail == [success |-> FALSE, error |-> <<>>, logs |-> <<>>]

NoResult == [success |-> FALSE, results |-> <<>>, failedNodes |-> <<>>]

\* no builder utility called yet
NoBuilderCall == [fn |-> "none", id |-> 0, out |-> <<>>, visits |-> <<>>]

\* the filtered map has not been leveled
NotLeveled == [called |-> FALSE, thrown |-> FALSE, levels |-> <<>>,
               roots |-> <<>>, leaves |-> <<>>]

NotCalled ==
    /\ api = "none"
    /\ callOptions = [concurrency |-> {}, failFast |-> {}]
    /\ concurrency = 0
    /\ failFast = FALSE
    /\ results = [k \in 1..Len(nodes) |-> "none"]
    /\ failedNodes = <<>>
    /\ shouldStop = FALSE
    /\ lvl = 0
    /\ idx = 0
    /\ executing = [k \in 1..Len(nodes) |-> "none"]
    /\ levelResults = <<>>
    /\ awaited = [set |-> {}, outcome |-> "none"]
    /\ started = [k \in 1..Len(nodes) |-> 0]
    /\ onStart = [k \in 1..Len(nodes) |-> 0]
    /\ onComplete = [k \in 1..Len(nodes) |-> 0]
    /\ produced = [k \in 1..Len(nodes) |-> "none"]
    /\ processor = "none"
    /\ detail = [k \in 1..Len(nodes) |-> NoDetail]
    /\ trace = [k \in 1..Len(nodes) |-> <<>>]
    /\ invoked = <<>>
    /\ dagResult = NoResult
    /\ builderCall = NoBuilderCall
    /\ calls = <<>>
    /\ filteredDag = NotLeveled

\* nothing has been called on the item map yet
Fresh ==
    /\ NotCalled
    /\ before = level
    /\ pc = "start"
    /\ inDegree = <<>>
    /\ dependents = <<>>
    /\ queue = <<>>
    /\ levels = <<>>
    /\ nodeLevel = <<>>
    /\ processedCount = 0
    /\ cycleNodes = <<>>
    /\ roots = <<>>
    /\ leaves = <<>>
    /\ order = <<>>

\* createNode leaves the level field unset
Start ==
    /\ level = [k \in 1..Len(nodes) |-> Undefined]
    /\ Fresh

Init ==
    /\ nodes \in NodeMaps
    /\ Start

\* the call numbering its levels from one, an empty level standing first
BuildLeveledDAGFromOne ==
    /\ pc = "start"
    /\ pc' = "leveling"
    /\ inDegree' = InitialInDegree(nodes)
    /\ dependents' = BuildDependents(nodes, 1, [k \in 1..Len(nodes) |-> <<>>])
    /\ queue' = InitialQueue(inDegree')
    /\ levels' = << <<>> >>
    /\ nodeLevel' = [k \in 1..Len(nodes) |-> Undefined]
    /\ processedCount' = 0
    /\ UNCHANGED <<nodes, level, cycleNodes, roots, leaves, order>>
    /\ UNCHANGED execVars
    /\ UNCHANGED otherVars

\* lines 24-50: the call, up to the while loop
BuildLeveledDAG ==
    /\ pc = "start"
    /\ pc' = "leveling"
    /\ inDegree' = InitialInDegree(nodes)
    /\ dependents' = BuildDependents(nodes, 1, [k \in 1..Len(nodes) |-> <<>>])
    /\ queue' = InitialQueue(inDegree')
    /\ levels' = <<>>
    /\ nodeLevel' = [k \in 1..Len(nodes) |-> Undefined]
    /\ processedCount' = 0
    /\ UNCHANGED <<nodes, level, cycleNodes, roots, leaves, order>>
    /\ UNCHANGED execVars
    /\ UNCHANGED otherVars

\* the while loop recording levels in nodeLevel only, the items being written
\* once the whole map is leveled
ProcessLevelNoWrite ==
    /\ pc = "leveling"
    /\ Len(queue) > 0
    /\ LET currentLevel == Len(levels)
           st == ProcessQueue(queue, 1, dependents,
                              [inDegree |-> inDegree, nextQueue |-> <<>>])
       IN  /\ nodeLevel' = [k \in DOMAIN nodeLevel |->
                            IF k \in Range(queue) THEN currentLevel ELSE nodeLevel[k]]
           /\ level' = IF processedCount + Len(queue) = Len(nodes)
                       THEN nodeLevel' ELSE level
           /\ processedCount' = processedCount + Len(queue)
           /\ inDegree' = st.inDegree
           /\ levels' = PushLevel(levels, queue)
           /\ queue' = st.nextQueue
    /\ UNCHANGED <<nodes, pc, dependents, cycleNodes, roots, leaves, order>>
    /\ UNCHANGED execVars
    /\ UNCHANGED otherVars

\* lines 52-76: one iteration of the while loop
ProcessLevel ==
    /\ pc = "leveling"
    /\ Len(queue) > 0
    /\ LET currentLevel == Len(levels)
           st == ProcessQueue(queue, 1, dependents,
                              [inDegree |-> inDegree, nextQueue |-> <<>>])
       IN  /\ level' = [k \in DOMAIN level |->
                            IF k \in Range(queue) THEN currentLevel ELSE level[k]]
           /\ nodeLevel' = [k \in DOMAIN nodeLevel |->
                            IF k \in Range(queue) THEN currentLevel ELSE nodeLevel[k]]
           /\ processedCount' = processedCount + Len(queue)
           /\ inDegree' = st.inDegree
           /\ levels' = PushLevel(levels, queue)
           /\ queue' = st.nextQueue
    /\ UNCHANGED <<nodes, pc, dependents, cycleNodes, roots, leaves, order>>
    /\ UNCHANGED execVars
    /\ UNCHANGED otherVars

\* the cycle error also raised when no level was built
ThrowCircularWhenEmpty ==
    /\ pc = "leveling"
    /\ Len(queue) = 0
    /\ processedCount # Len(nodes) \/ Len(levels) = 0
    /\ pc' = "thrown"
    /\ cycleNodes' = CycleNodesOf(nodes, nodeLevel)
    /\ UNCHANGED <<nodes, level, inDegree, dependents, queue, levels, nodeLevel,
                   processedCount, roots, leaves, order>>
    /\ UNCHANGED execVars
    /\ UNCHANGED otherVars

\* lines 78-81
ThrowCircular ==
    /\ pc = "leveling"
    /\ Len(queue) = 0
    /\ processedCount # Len(nodes)
    /\ pc' = "thrown"
    /\ cycleNodes' = CycleNodesOf(nodes, nodeLevel)
    /\ UNCHANGED <<nodes, level, inDegree, dependents, queue, levels, nodeLevel,
                   processedCount, roots, leaves, order>>
    /\ UNCHANGED execVars
    /\ UNCHANGED otherVars

\* buildLeveledDAG returning without the processedCount check
ReturnDAGUnchecked ==
    /\ pc = "leveling"
    /\ Len(queue) = 0
    /\ pc' = "built"
    /\ roots' = RootsOf(nodes, dependents)
    /\ leaves' = LeavesOf(nodes)
    /\ UNCHANGED <<nodes, level, inDegree, dependents, queue, levels, nodeLevel,
                   processedCount, cycleNodes, order>>
    /\ UNCHANGED execVars
    /\ UNCHANGED otherVars

\* lines 83-94
ReturnDAG ==
    /\ pc = "leveling"
    /\ Len(queue) = 0
    /\ processedCount = Len(nodes)
    /\ pc' = "built"
    /\ roots' = RootsOf(nodes, dependents)
    /\ leaves' = LeavesOf(nodes)
    /\ UNCHANGED <<nodes, level, inDegree, dependents, queue, levels, nodeLevel,
                   processedCount, cycleNodes, order>>
    /\ UNCHANGED execVars
    /\ UNCHANGED otherVars

\* Array.prototype.flat taking the last level first
RECURSIVE FlatReversed(_)
FlatReversed(lv) ==
    IF lv = <<>> THEN <<>> ELSE FlatReversed(Tail(lv)) \o Head(lv)

\* line 103: dag.levels.flat()
RECURSIVE Flat(_)
Flat(lv) == IF lv = <<>> THEN <<>> ELSE Head(lv) \o Flat(Tail(lv))

\* lines 100-104, called on the graph buildLeveledDAG returned
getTopologicalOrder ==
    /\ pc = "built"
    /\ pc' = "ordered"
    /\ order' = Flat(levels)
    /\ UNCHANGED <<nodes, level, inDegree, dependents, queue, levels, nodeLevel,
                   processedCount, cycleNodes, roots, leaves>>
    /\ UNCHANGED execVars
    /\ UNCHANGED otherVars

NextLevels ==
    \/ BuildLeveledDAG
    \/ ProcessLevel
    \/ ThrowCircular
    \/ ReturnDAG
    \/ getTopologicalOrder

SpecLevels == Init /\ [][NextLevels]_vars

\* a level no item of the map can be given: the value left in a level field
\* by some earlier use of the item
StaleLevel == MaxNodes

\* buildLeveledDAG called on items whose level field may already be set
InitAgain ==
    /\ nodes \in NodeMaps
    /\ level \in [1..Len(nodes) -> {Undefined, StaleLevel}]
    /\ Fresh

SpecAgain == InitAgain /\ [][NextLevels]_vars

----------------------------------------------------------------------------
(* executeWithConcurrency and executeDAG.  JavaScript runs each piece of   *)
(* code between two awaits without interruption, so the actions are: a     *)
(* call (up to its first await), the settling of one task, and the         *)
(* resumption of the dispatcher after Promise.race / Promise.all.          *)

\* line 54: concurrency = 4
DefaultConcurrency == 4

\* a default that lets the remaining levels run after a failure
DefaultFailFastOff == FALSE

\* line 55: failFast = true
DefaultFailFast == TRUE

\* an optional field of the options object: {} when absent, {v} when set
OptValue(opt, default) == IF opt = {} THEN default ELSE CHOOSE v \in opt : TRUE

ConcurrencyOptions == {{}} \cup {{c} : c \in 0..MaxConcurrency}
FailFastOptions == {{}, {TRUE}, {FALSE}}

\* executing.size
Size(ex) == Cardinality({i \in DOMAIN ex : ex[i] # "none"})

\* the dispatch loop walking the items from the last to the first
NextItemFromEnd(items, i) == items[Len(items) + 1 - i]

\* line 24: for (const item of items)
NextItem(items, i) == items[i]

\* the per-item task invoking the processor before onNodeStart
StartTaskWorkFirst(st, node, stop) ==
    IF stop
    THEN [st EXCEPT !.executing[node] = "skipped"]
    ELSE [st EXCEPT !.executing[node] = "running",
                    !.started[node] = @ + 1,
                    !.onStart[node] = @ + 1,
                    !.trace[node] = @ \o <<"processor", "onNodeStart">>,
                    !.invoked = Append(@, node)]

\* lines 70-85, up to the first await: the per-item task is created
StartTask(st, node, stop) ==
    IF stop
    THEN [st EXCEPT !.executing[node] = "skipped"]
    ELSE [st EXCEPT !.executing[node] = "running",
                    !.onStart[node] = @ + 1,
                    !.started[node] = @ + 1,
                    !.trace[node] = @ \o <<"onNodeStart", "processor">>,
                    !.invoked = Append(@, node)]

\* the dispatch loop awaiting only once the limit is exceeded
RECURSIVE RunLoopOver(_, _, _, _)
RunLoopOver(items, limit, stop, st) ==
    IF st.idx > Len(items)
    THEN [st EXCEPT !.pc = "all"]
    ELSE LET st1 == [StartTask(st, NextItem(items, st.idx), stop)
                         EXCEPT !.idx = @ + 1]
         IN  IF Size(st1.executing) > limit
             THEN [st1 EXCEPT !.pc = "race"]
             ELSE RunLoopOver(items, limit, stop, st1)

\* lines 24-37: the dispatch loop, run until it awaits
RECURSIVE RunLoop(_, _, _, _)
RunLoop(items, limit, stop, st) ==
    IF st.idx > Len(items)
    THEN [st EXCEPT !.pc = "all"]
    ELSE LET st1 == [StartTask(st, NextItem(items, st.idx), stop)
                         EXCEPT !.idx = @ + 1]
         IN  IF Size(st1.executing) >= limit
             THEN [st1 EXCEPT !.pc = "race"]
             ELSE RunLoop(items, limit, stop, st1)

\* the dispatcher returning its results without awaiting Promise.all
AwaitNoAll(kind, ex) ==
    LET set == {i \in DOMAIN ex : ex[i] # "none"}
    IN  [set     |-> set,
         outcome |-> IF \E i \in set : ex[i] = "rejected" THEN "rejected"
                     ELSE IF kind = "all" THEN "resolved"
                     ELSE "pending"]

\* Promise.race(executing) / Promise.all(executing) at the moment it is called
Await(kind, ex) ==
    LET set == {i \in DOMAIN ex : ex[i] # "none"}
    IN  [set     |-> set,
         outcome |-> IF \E i \in set : ex[i] = "rejected" THEN "rejected"
                     ELSE IF kind = "all" /\ set = {} THEN "resolved"
                     ELSE "pending"]

\* Promise.all resolving as soon as one awaited task has resolved
SettleAllOnFirst(aw, kind, i, how, ex) ==
    IF aw.outcome # "pending" THEN aw
    ELSE IF i \in aw.set THEN [aw EXCEPT !.outcome = how]
    ELSE aw

\* the effect on the awaited promise of task i settling
Settle(aw, kind, i, how, ex) ==
    IF aw.outcome # "pending" THEN aw
    ELSE IF kind = "race"
         THEN IF i \in aw.set THEN [aw EXCEPT !.outcome = how] ELSE aw
    ELSE IF kind = "all"
         THEN IF how = "rejected" THEN [aw EXCEPT !.outcome = "rejected"]
              ELSE IF \A j \in aw.set : ex[j] = "none"
                   THEN [aw EXCEPT !.outcome = "resolved"]
                   ELSE aw
    ELSE aw

\* the recording loop setting shouldStop whatever failFast is
RECURSIVE CollectAlwaysStop(_, _, _, _)
CollectAlwaysStop(lr, i, ff, acc) ==
    IF i > Len(lr) THEN acc
    ELSE LET result == lr[i]
             failed == result.kind # "ok"
         IN  CollectAlwaysStop(lr, i + 1, ff,
                 [results     |-> [acc.results EXCEPT ![result.node] = result.kind],
                  failedNodes |-> IF failed
                                  THEN Append(acc.failedNodes, result.node)
                                  ELSE acc.failedNodes,
                  shouldStop  |-> IF failed THEN TRUE ELSE acc.shouldStop])

\* lines 89-97: the results of a level are recorded
RECURSIVE Collect(_, _, _, _)
Collect(lr, i, ff, acc) ==
    IF i > Len(lr) THEN acc
    ELSE LET result == lr[i]
             failed == result.kind # "ok"
         IN  Collect(lr, i + 1, ff,
                 [results     |-> [acc.results EXCEPT ![result.node] = result.kind],
                  failedNodes |-> IF failed
                                  THEN Append(acc.failedNodes, result.node)
                                  ELSE acc.failedNodes,
                  shouldStop  |-> IF failed /\ ff THEN TRUE ELSE acc.shouldStop])

\* the for-of loop without its break
LevelLoopNoBreak(k, stop) == k > Len(levels)

\* line 66: the for-of loop over dag.levels stops
LevelLoopEnds(k, stop) == k > Len(levels) \/ stop

\* the aggregate reporting success as soon as one item succeeded
DAGResultOfAnySuccess(res, fn) ==
    [success |-> \E i \in DOMAIN res : res[i] = "ok",
     results |-> res, failedNodes |-> fn]

\* lines 100-105: the aggregate executeDAG returns
DAGResultOf(res, fn) ==
    [success |-> Len(fn) = 0, results |-> res, failedNodes |-> fn]

\* lines 65-87: the for-of loop reaches level k (results' and failedNodes'
\* are set by the caller)
EnterLevel(k, limit, stop, ex, st0, on0, tr0, iv0) ==
    /\ lvl' = k
    /\ levelResults' = <<>>
    /\ IF LevelLoopEnds(k, stop)
       THEN /\ pc' = "returned"
            /\ idx' = 0
            /\ executing' = ex
            /\ started' = st0
            /\ onStart' = on0
            /\ trace' = tr0
            /\ invoked' = iv0
            /\ awaited' = [set |-> {}, outcome |-> "none"]
            /\ dagResult' = DAGResultOf(results', failedNodes')
       ELSE LET st == RunLoop(levels[k], limit, stop,
                              [idx |-> 1, executing |-> ex, started |-> st0,
                               onStart |-> on0, trace |-> tr0,
                               invoked |-> iv0, pc |-> "loop"])
            IN  /\ pc' = st.pc
                /\ idx' = st.idx
                /\ executing' = st.executing
                /\ started' = st.started
                /\ onStart' = st.onStart
                /\ trace' = st.trace
                /\ invoked' = st.invoked
                /\ awaited' = Await(st.pc, st.executing)
                /\ dagResult' = dagResult

\* the processor argument: a function of the caller, or createProcessor(fn)
Processors == {"custom", "createProcessor"}

\* lines 53-63 and the first pass of the loops
Begin(opts, proc) ==
    LET K == 1..Len(nodes)
        limit == OptValue(opts.concurrency, DefaultConcurrency)
    IN  /\ callOptions' = opts
        /\ processor' = proc
        /\ concurrency' = limit
        /\ failFast' = OptValue(opts.failFast, DefaultFailFast)
        /\ results' = [k \in K |-> "none"]
        /\ failedNodes' = <<>>
        /\ shouldStop' = FALSE
        /\ onComplete' = [k \in K |-> 0]
        /\ produced' = [k \in K |-> "none"]
        /\ detail' = [k \in K |-> NoDetail]
        /\ EnterLevel(1, limit, FALSE, [k \in K |-> "none"],
                      [k \in K |-> 0], [k \in K |-> 0], [k \in K |-> <<>>],
                      <<>>)

\* executeDAGSequential handing its options on unchanged
SequentialOptionsKept(opts) == opts

\* line 116: the options executeDAGSequential hands to executeDAG
SequentialOptions(opts) == [opts EXCEPT !.concurrency = {1}]

\* executeDAG clearing the level field of every item as it starts
executeDAGClearingLevels(opts, proc) ==
    /\ pc = "built"
    /\ api' = "executeDAG"
    /\ Begin(opts, proc)
    /\ level' = [k \in DOMAIN level |-> Undefined]
    /\ UNCHANGED <<nodes, inDegree, dependents, queue, levels, nodeLevel,
                   processedCount, cycleNodes, roots, leaves, order>>
    /\ UNCHANGED otherVars

\* lines 48-87: executeDAG called, up to its first await
executeDAG(opts, proc) ==
    /\ pc = "built"
    /\ api' = "executeDAG"
    /\ Begin(opts, proc)
    /\ UNCHANGED assignVars
    /\ UNCHANGED otherVars

executeDAGSequential(opts, proc) ==
    /\ pc = "built"
    /\ opts.concurrency = {}
    /\ api' = "executeDAGSequential"
    /\ Begin(SequentialOptions(opts), proc)
    /\ UNCHANGED assignVars
    /\ UNCHANGED otherVars

\* what a function wrapped by createProcessor can do: return, throw an Error,
\* or throw a value that is no Error (a plain string)
FnOutcomes ==
    {[type |-> "return", text |-> ""],
     [type |-> "Error", text |-> "boom"],
     [type |-> "string", text |-> "oops"]}

\* String(error) of a thrown value
StringOf(v) == IF v.type = "string" THEN v.text ELSE "Error: " \o v.text

\* createProcessor letting a thrown value that is no Error escape
createProcessorRethrows(node, fn) ==
    IF fn.type = "return"
    THEN [rejected |-> FALSE, success |-> TRUE, error |-> <<>>,
          logs |-> << <<"Starting ", node>>, <<"Completed ", node>> >>]
    ELSE IF fn.type = "Error"
    THEN [rejected |-> FALSE, success |-> FALSE, error |-> <<fn.text>>,
          logs |-> << <<"Starting ", node>>,
                      <<"Failed ", node, ": ", fn.text>> >>]
    ELSE [rejected |-> TRUE, success |-> FALSE, error |-> <<>>,
          logs |-> << <<"Starting ", node>> >>]

\* lines 122-153: the processor createProcessor(fn) applied to a node, fn
\* behaving as given; error is the message of the Error of the result
createProcessor(node, fn) ==
    IF fn.type = "return"
    THEN [rejected |-> FALSE, success |-> TRUE, error |-> <<>>,
          logs |-> << <<"Starting ", node>>, <<"Completed ", node>> >>]
    ELSE LET message == IF fn.type = "Error" THEN fn.text ELSE StringOf(fn)
         IN  [rejected |-> FALSE, success |-> FALSE, error |-> <<message>>,
              logs |-> << <<"Starting ", node>>,
                          <<"Failed ", node, ": ", message>> >>]

\* lines 72-78: the synthetic result of a skipped item
SkippedResult ==
    [success |-> FALSE, error |-> <<"Skipped due to earlier failure">>,
     logs |-> << <<"Skipped due to earlier failure">> >>]

\* the result of a processor of the caller: it carries the item the processor
\* was called with (its error and logs are the caller's own)
CustomResult(kind) == [success |-> kind = "ok", error |-> <<>>, logs |-> <<>>]

\* the results array kept in the order of the items rather than of arrival
PushResultSorted(lr, r) ==
    SelectSeq(lr, LAMBDA x : x.node < r.node) \o <<r>> \o
    SelectSeq(lr, LAMBDA x : x.node > r.node)

\* line 26: results.push(result)
PushResult(lr, r) == Append(lr, r)

\* the task resolving without the onNodeComplete call
ResolvedSilently(i, kind, det, calledBack) ==
    /\ produced' = [produced EXCEPT ![i] = kind]
    /\ detail' = [detail EXCEPT ![i] = det]
    /\ levelResults' = PushResult(levelResults, [node |-> i, kind |-> kind])
    /\ executing' = [executing EXCEPT ![i] = "none"]
    /\ awaited' = Settle(awaited, pc, i, "resolved", executing')
    /\ UNCHANGED <<pc, api, callOptions, concurrency, failFast, results,
                   failedNodes, shouldStop, lvl, idx, started, onStart,
                   onComplete, trace, processor, invoked, dagResult>>
    /\ UNCHANGED assignVars
    /\ UNCHANGED otherVars

\* lines 83-84 and 25-28: the task of item i resolves with a Node Result
Resolved(i, kind, det, calledBack) ==
    /\ produced' = [produced EXCEPT ![i] = kind]
    /\ detail' = [detail EXCEPT ![i] = det]
    /\ onComplete' = IF calledBack
                     THEN [onComplete EXCEPT ![i] = @ + 1]
                     ELSE onComplete
    /\ trace' = IF calledBack
                THEN [trace EXCEPT ![i] = @ \o <<"onNodeComplete", kind>>]
                ELSE trace
    /\ levelResults' = PushResult(levelResults, [node |-> i, kind |-> kind])
    /\ executing' = [executing EXCEPT ![i] = "none"]
    /\ awaited' = Settle(awaited, pc, i, "resolved", executing')
    /\ UNCHANGED <<pc, api, callOptions, concurrency, failFast, results,
                   failedNodes, shouldStop, lvl, idx, started, onStart,
                   processor, invoked, dagResult>>
    /\ UNCHANGED assignVars
    /\ UNCHANGED otherVars

\* the rejection handled inside the dispatcher: the task leaves executing
\* without a result
RejectedTaskSwallowed(i) ==
    /\ trace' = [trace EXCEPT ![i] = Append(@, "rejects")]
    /\ executing' = [executing EXCEPT ![i] = "none"]
    /\ awaited' = Settle(awaited, pc, i, "resolved", executing')
    /\ UNCHANGED <<pc, api, callOptions, concurrency, failFast, results,
                   failedNodes, shouldStop, lvl, idx, levelResults, started,
                   onStart, onComplete, produced, processor, detail,
                   invoked, dagResult>>
    /\ UNCHANGED assignVars
    /\ UNCHANGED otherVars

\* line 82: the processor's promise rejects; the task stays in executing
RejectedTask(i) ==
    /\ trace' = [trace EXCEPT ![i] = Append(@, "rejects")]
    /\ executing' = [executing EXCEPT ![i] = "rejected"]
    /\ awaited' = Settle(awaited, pc, i, "rejected", executing')
    /\ UNCHANGED <<pc, api, callOptions, concurrency, failFast, results,
                   failedNodes, shouldStop, lvl, idx, levelResults, started,
                   onStart, onComplete, produced, processor, detail,
                   invoked, dagResult>>
    /\ UNCHANGED assignVars
    /\ UNCHANGED otherVars

\* a task in flight being given the synthetic result once an item of its
\* level has failed under fail-fast
TaskResolvesDiscarded(i, outcome) ==
    /\ \/ executing[i] = "skipped"
       \/ executing[i] = "running" /\ processor = "custom"
    /\ IF \/ executing[i] = "skipped"
          \/ failFast /\ \E r \in Range(levelResults) : r.kind = "fail"
       THEN outcome = "fail" /\ Resolved(i, "skipped", SkippedResult, FALSE)
       ELSE Resolved(i, outcome, CustomResult(outcome), TRUE)

\* lines 71-79 / 82-84: the task of item i settles with a Node Result, the
\* synthetic one or the one a processor of the caller resolves to
TaskResolves(i, outcome) ==
    /\ \/ executing[i] = "skipped"
       \/ executing[i] = "running" /\ processor = "custom"
    /\ IF executing[i] = "skipped"
       THEN outcome = "fail" /\ Resolved(i, "skipped", SkippedResult, FALSE)
       ELSE Resolved(i, outcome, CustomResult(outcome), TRUE)

\* line 82: a processor of the caller rejects
TaskRejects(i) ==
    /\ executing[i] = "running"
    /\ processor = "custom"
    /\ RejectedTask(i)

\* line 82 with lines 125-152: the processor createProcessor(fn) settles
ProcessorSettles(i, fn) ==
    /\ executing[i] = "running"
    /\ processor = "createProcessor"
    /\ LET r == createProcessor(i, fn)
       IN  IF r.rejected
           THEN RejectedTask(i)
           ELSE Resolved(i, IF r.success THEN "ok" ELSE "fail",
                         [success |-> r.success, error |-> r.error,
                          logs |-> r.logs], TRUE)

\* the dispatch loop going on only once the whole awaited batch has completed
ResumeRaceAfterBatch ==
    /\ pc = "race"
    /\ awaited.outcome = "resolved"
    /\ \A j \in awaited.set : executing[j] = "none"
    /\ LET st == RunLoop(levels[lvl], concurrency, shouldStop,
                         [idx |-> idx, executing |-> executing,
                          started |-> started, onStart |-> onStart,
                          trace |-> trace, invoked |-> invoked,
                          pc |-> "loop"])
       IN  /\ pc' = st.pc
           /\ idx' = st.idx
           /\ executing' = st.executing
           /\ started' = st.started
           /\ onStart' = st.onStart
           /\ trace' = st.trace
           /\ invoked' = st.invoked
           /\ awaited' = Await(st.pc, st.executing)
    /\ UNCHANGED <<api, callOptions, concurrency, failFast, results,
                   failedNodes, shouldStop, lvl, levelResults, onComplete,
                   produced, processor, detail, dagResult>>
    /\ UNCHANGED assignVars
    /\ UNCHANGED otherVars

\* line 33: Promise.race resolved, the dispatch loop goes on
ResumeRace ==
    /\ pc = "race"
    /\ awaited.outcome = "resolved"
    /\ LET st == RunLoop(levels[lvl], concurrency, shouldStop,
                         [idx |-> idx, executing |-> executing,
                          started |-> started, onStart |-> onStart,
                          trace |-> trace, invoked |-> invoked,
                          pc |-> "loop"])
       IN  /\ pc' = st.pc
           /\ idx' = st.idx
           /\ executing' = st.executing
           /\ started' = st.started
           /\ onStart' = st.onStart
           /\ trace' = st.trace
           /\ invoked' = st.invoked
           /\ awaited' = Await(st.pc, st.executing)
    /\ UNCHANGED <<api, callOptions, concurrency, failFast, results,
                   failedNodes, shouldStop, lvl, levelResults, onComplete,
                   produced, processor, detail, dagResult>>
    /\ UNCHANGED assignVars
    /\ UNCHANGED otherVars

\* Promise.all resolving only when it was called on an empty set
ResumeAllWhenEmpty ==
    /\ pc = "all"
    /\ awaited.outcome = "resolved"
    /\ awaited.set = {}
    /\ LET acc == Collect(levelResults, 1, failFast,
                          [results |-> results, failedNodes |-> failedNodes,
                           shouldStop |-> shouldStop])
       IN  /\ results' = acc.results
           /\ failedNodes' = acc.failedNodes
           /\ shouldStop' = acc.shouldStop
           /\ EnterLevel(lvl + 1, concurrency, acc.shouldStop, executing,
                         started, onStart, trace, invoked)
    /\ UNCHANGED <<api, callOptions, concurrency, failFast, onComplete,
                   produced, processor, detail>>
    /\ UNCHANGED assignVars
    /\ UNCHANGED otherVars

\* lines 37-38 and 89-98: Promise.all resolved, the level is recorded and the
\* for-of loop moves on (lines 65-66), or executeDAG returns (lines 100-105)
ResumeAll ==
    /\ pc = "all"
    /\ awaited.outcome = "resolved"
    /\ LET acc == Collect(levelResults, 1, failFast,
                          [results |-> results, failedNodes |-> failedNodes,
                           shouldStop |-> shouldStop])
       IN  /\ results' = acc.results
           /\ failedNodes' = acc.failedNodes
           /\ shouldStop' = acc.shouldStop
           /\ EnterLevel(lvl + 1, concurrency, acc.shouldStop, executing,
                         started, onStart, trace, invoked)
    /\ UNCHANGED <<api, callOptions, concurrency, failFast, onComplete,
                   produced, processor, detail>>
    /\ UNCHANGED assignVars
    /\ UNCHANGED otherVars

\* lines 33/37: the awaited promise rejected, executeDAG rejects
Rejected ==
    /\ pc \in {"race", "all"}
    /\ awaited.outcome = "rejected"
    /\ pc' = "rejected"
    /\ UNCHANGED execVars
    /\ UNCHANGED assignVars
    /\ UNCHANGED otherVars

NextExecute ==
    \/ \E c \in ConcurrencyOptions, f \in FailFastOptions, p \in Processors :
          executeDAG([concurrency |-> c, failFast |-> f], p)
    \/ \E f \in FailFastOptions, p \in Processors :
          executeDAGSequential([concurrency |-> {}, failFast |-> f], p)
    \/ \E i \in DOMAIN executing, outcome \in {"ok", "fail"} :
          TaskResolves(i, outcome)
    \/ \E i \in DOMAIN executing : TaskRejects(i)
    \/ \E i \in DOMAIN executing, fn \in FnOutcomes : ProcessorSettles(i, fn)
    \/ ResumeRace
    \/ ResumeAll
    \/ Rejected

Next == NextLevels \/ NextExecute

InitPlain ==
    /\ Init
    /\ nodes \in PlainNodeMaps

Spec == InitPlain /\ [][Next]_vars

\* the pipeline with work that always resolves to a Node Result: no processor
\* rejects and no callback throws
NextResolving ==
    \/ BuildLeveledDAG
    \/ ProcessLevel
    \/ ThrowCircular
    \/ ReturnDAG
    \/ \E c \in ConcurrencyOptions, f \in FailFastOptions, p \in Processors :
          executeDAG([concurrency |-> c, failFast |-> f], p)
    \/ \E f \in FailFastOptions, p \in Processors :
          executeDAGSequential([concurrency |-> {}, failFast |-> f], p)
    \/ \E i \in DOMAIN executing, outcome \in {"ok", "fail"} :
          TaskResolves(i, outcome)
    \/ \E i \in DOMAIN executing, fn \in FnOutcomes : ProcessorSettles(i, fn)
    \/ ResumeRace
    \/ ResumeAll

\* the work of item i settles
WorkSettles(i) ==
    /\ i \in DOMAIN executing
    /\ \/ \E outcome \in {"ok", "fail"} : TaskResolves(i, outcome)
       \/ \E fn \in FnOutcomes : ProcessorSettles(i, fn)

\* the job queue runs a continuation whose promise has resolved, and every
\* work invocation eventually settles
Fairness ==
    /\ WF_vars(ResumeRace)
    /\ WF_vars(ResumeAll)
    /\ \A i \in 1..MaxLiveNodes : WF_vars(WorkSettles(i))

InitResolving ==
    /\ nodes \in {m \in PlainNodeMaps : Len(m) <= MaxLiveNodes}
    /\ Start

SpecResolving == InitResolving /\ [][NextResolving]_vars /\ Fairness

\* executeDAG(dag, processor): no options object
NoOptions == [concurrency |-> {}, failFast |-> {}]

\* the pipeline on wide maps, executeDAG called without options
InitWide ==
    /\ nodes \in WideMaps
    /\ Start

NextDefaults ==
    \/ BuildLeveledDAG
    \/ ProcessLevel
    \/ ThrowCircular
    \/ ReturnDAG
    \/ executeDAG(NoOptions, "custom")
    \/ \E i \in DOMAIN executing, outcome \in {"ok", "fail"} :
          TaskResolves(i, outcome)
    \/ \E i \in DOMAIN executing : TaskRejects(i)
    \/ ResumeRace
    \/ ResumeAll
    \/ Rejected

SpecDefaults == InitWide /\ [][NextDefaults]_vars

----------------------------------------------------------------------------
(* Two executeDAG calls on one leveled graph.  Every call has its own      *)
(* locals (lines 53-63 and 21-22) and its own tasks; calls[c] is the       *)
(* record of the locals of call c, and the steps are those of the single   *)
(* call above, applied to that record.  The processors of the two calls    *)
(* resolve to a result (a rejecting one ends its own call, as above).      *)

\* a stop flag kept outside the call, shared by all calls
StopFlagShared(cs, c) == \E d \in DOMAIN cs : cs[d].shouldStop

\* line 63: let shouldStop = false, a local of the call
StopFlag(cs, c) == cs[c].shouldStop

\* a call is between its first await and its return or rejection
Running(rec) == rec.pc \in {"race", "all"}

\* lines 65-87: the for-of loop of the call with locals rec reaches level k;
\* cs holds the locals of all calls with rec in place
CallEnterLevel(cs, c, k) ==
    LET rec == [cs[c] EXCEPT !.lvl = k, !.levelResults = <<>>]
    IN  IF LevelLoopEnds(k, StopFlag(cs, c))
        THEN [rec EXCEPT !.pc = "returned",
                         !.idx = 0,
                         !.awaited = [set |-> {}, outcome |-> "none"],
                         !.dagResult = DAGResultOf(rec.results, rec.failedNodes)]
        ELSE LET st == RunLoop(levels[k], rec.concurrency, StopFlag(cs, c),
                               [rec EXCEPT !.idx = 1, !.pc = "loop"])
             IN  [st EXCEPT !.awaited = Await(st.pc, st.executing)]

\* lines 53-63: the locals of a call that has just destructured its options
CallLocals(opts, overlaps) ==
    LET K == 1..Len(nodes)
    IN  [pc |-> "loop",
         concurrency |-> OptValue(opts.concurrency, DefaultConcurrency),
         failFast |-> OptValue(opts.failFast, DefaultFailFast),
         results |-> [k \in K |-> "none"],
         failedNodes |-> <<>>,
         shouldStop |-> FALSE,
         lvl |-> 0,
         idx |-> 0,
         executing |-> [k \in K |-> "none"],
         levelResults |-> <<>>,
         awaited |-> [set |-> {}, outcome |-> "none"],
         started |-> [k \in K |-> 0],
         onStart |-> [k \in K |-> 0],
         produced |-> [k \in K |-> "none"],
         trace |-> [k \in K |-> <<>>],
         invoked |-> <<>>,
         dagResult |-> NoResult,
         overlaps |-> overlaps]

\* the options of the calls: one at a time or the largest limit, with either
\* fail-fast setting
CallOptions ==
    {[concurrency |-> {n}, failFast |-> {f}] :
        n \in {1, MaxConcurrency}, f \in BOOLEAN}

\* executeDAG is called on the graph, a first or a second time; the second
\* call may come while the first is running or after it has ended
executeDAGCall(opts) ==
    /\ pc = "built"
    /\ api = "none"
    /\ Len(calls) < 2
    /\ LET c == Len(calls) + 1
           cs == Append(calls,
                        CallLocals(opts, \E d \in DOMAIN calls : Running(calls[d])))
       IN  calls' = [cs EXCEPT ![c] = CallEnterLevel(cs, c, 1)]
    /\ UNCHANGED <<pc, builderCall, before, filteredDag>>
    /\ UNCHANGED assignVars
    /\ UNCHANGED execVars

\* lines 82-84 and 25-28: the task of item i of call c resolves
CallTaskResolves(c, i, outcome) ==
    /\ calls[c].executing[i] = "running"
    /\ LET rec == calls[c]
           ex == [rec.executing EXCEPT ![i] = "none"]
       IN  calls' = [calls EXCEPT ![c] =
               [rec EXCEPT !.produced[i] = outcome,
                           !.trace[i] = @ \o <<"onNodeComplete", outcome>>,
                           !.levelResults =
                               PushResult(@, [node |-> i, kind |-> outcome]),
                           !.executing = ex,
                           !.awaited = Settle(@, rec.pc, i, "resolved", ex)]]
    /\ UNCHANGED <<pc, builderCall, before, filteredDag>>
    /\ UNCHANGED assignVars
    /\ UNCHANGED execVars

\* line 33: the Promise.race of call c resolved, its dispatch loop goes on
CallResumeRace(c) ==
    /\ calls[c].pc = "race"
    /\ calls[c].awaited.outcome = "resolved"
    /\ LET rec == calls[c]
           st == RunLoop(levels[rec.lvl], rec.concurrency, StopFlag(calls, c),
                         [rec EXCEPT !.pc = "loop"])
       IN  calls' = [calls EXCEPT ![c] =
               [st EXCEPT !.awaited = Await(st.pc, st.executing)]]
    /\ UNCHANGED <<pc, builderCall, before, filteredDag>>
    /\ UNCHANGED assignVars
    /\ UNCHANGED execVars

\* lines 37-38 and 89-105: the Promise.all of call c resolved, the level is
\* recorded and the for-of loop moves on or the call returns
CallResumeAll(c) ==
    /\ calls[c].pc = "all"
    /\ calls[c].awaited.outcome = "resolved"
    /\ LET rec == calls[c]
           acc == Collect(rec.levelResults, 1, rec.failFast,
                          [results |-> rec.results,
                           failedNodes |-> rec.failedNodes,
                           shouldStop |-> rec.shouldStop])
           cs == [calls EXCEPT ![c] =
                     [rec EXCEPT !.results = acc.results,
                                 !.failedNodes = acc.failedNodes,
                                 !.shouldStop = acc.shouldStop]]
       IN  calls' = [cs EXCEPT ![c] = CallEnterLevel(cs, c, rec.lvl + 1)]
    /\ UNCHANGED <<pc, builderCall, before, filteredDag>>
    /\ UNCHANGED assignVars
    /\ UNCHANGED execVars

\* graphs of at most MaxCallNodes items
InitCalls ==
    /\ nodes \in PlainNodeMaps
    /\ Len(nodes) <= MaxCallNodes
    /\ Start

NextCalls ==
    \/ BuildLeveledDAG
    \/ ProcessLevel
    \/ ThrowCircular
    \/ ReturnDAG
    \/ \E opts \in CallOptions : executeDAGCall(opts)
    \/ \E c \in DOMAIN calls, i \in DOMAIN executing, outcome \in {"ok", "fail"} :
          CallTaskResolves(c, i, outcome)
    \/ \E c \in DOMAIN calls : CallResumeRace(c)
    \/ \E c \in DOMAIN calls : CallResumeAll(c)

SpecCalls == InitCalls /\ [][NextCalls]_vars

----------------------------------------------------------------------------
(* Builder utilities: getAncestors, getDescendants, filterDAGFromRoot.     *)
(* The traversals are the recursive closures of the code, with the sets    *)
(* they share (visited and the result) passed along in a record.           *)

\* getAncestors, lines 31-44: visit(n) and its loop over node.dependencies
RECURSIVE VisitAncestors(_, _, _)
RECURSIVE VisitAncestorDeps(_, _, _, _)
VisitAncestors(ns, n, st) ==
    IF n \in st.visited THEN st
    ELSE LET st1 == [st EXCEPT !.visited = @ \cup {n}, !.log = Append(@, n)]
         IN  IF ~Has(ns, n) THEN st1 ELSE VisitAncestorDeps(ns, n, 1, st1)

VisitAncestorDeps(ns, n, i, st) ==
    IF i > Len(ns[n]) THEN st
    ELSE LET dep == ns[n][i]
         IN  VisitAncestorDeps(ns, n, i + 1,
                 IF Has(ns, dep)
                 THEN VisitAncestors(ns, dep,
                                     [st EXCEPT !.out = SetAdd(@, dep)])
                 ELSE st)

\* lines 29-30, 52-53 and 8-9: the empty sets a traversal starts with; log
\* lists the identifiers in the order visit went past its visited check
NoVisits == [visited |-> {}, out |-> <<>>, log |-> <<>>]

\* getAncestors, lines 28-47
AncestorsRun(ns, id) == VisitAncestors(ns, id, NoVisits)

Ancestors(ns, id) == AncestorsRun(ns, id).out

\* getDescendants, lines 56-63: the reverse dependency map; it gets a key for
\* every identifier some list names, in the map or not (<<>>: no key)
RECURSIVE ReverseDeps(_, _, _, _)
ReverseDeps(ns, nodeId, i, dm) ==
    IF nodeId > Len(ns) THEN dm
    ELSE IF i > Len(ns[nodeId]) THEN ReverseDeps(ns, nodeId + 1, 1, dm)
    ELSE ReverseDeps(ns, nodeId, i + 1,
                     [dm EXCEPT ![ns[nodeId][i]] = SetAdd(@, nodeId)])

\* getDescendants, lines 64-75: visit(n) and its loop over dependents.get(n)
RECURSIVE VisitDescendants(_, _, _)
RECURSIVE VisitDependents(_, _, _, _)
\* visit marking an identifier only when some item names it
VisitDescendantsUnmarked(dm, n, st) ==
    IF n \in st.visited THEN st
    ELSE LET st1 == [st EXCEPT !.log = Append(@, n)]
         IN  IF dm[n] = <<>> THEN st1
             ELSE VisitDependents(dm, n, 1, [st1 EXCEPT !.visited = @ \cup {n}])

VisitDescendants(dm, n, st) ==
    IF n \in st.visited THEN st
    ELSE LET st1 == [st EXCEPT !.visited = @ \cup {n}, !.log = Append(@, n)]
         IN  IF dm[n] = <<>> THEN st1 ELSE VisitDependents(dm, n, 1, st1)

VisitDependents(dm, n, i, st) ==
    IF i > Len(dm[n]) THEN st
    ELSE LET dep == dm[n][i]
         IN  VisitDependents(dm, n, i + 1,
                 VisitDescendants(dm, dep, [st EXCEPT !.out = SetAdd(@, dep)]))

\* getDescendants, lines 51-78
DescendantsRun(ns, id) ==
    LET dm == ReverseDeps(ns, 1, 1, [d \in DepIds |-> <<>>])
    IN  VisitDescendants(dm, id, NoVisits)

\* the direct dependents only
DescendantsDirect(ns, id) ==
    ReverseDeps(ns, 1, 1, [d \in DepIds |-> <<>>])[id]

\* line 77: return descendants
Descendants(ns, id) == DescendantsRun(ns, id).out

\* filterDAGFromRoot, lines 10-21: visit(id) and its loop; out lists the keys
\* of the filtered map in insertion order
RECURSIVE VisitReachable(_, _, _)
RECURSIVE VisitReachableDeps(_, _, _, _)
\* visit keeping an identifier before looking it up in the map
VisitReachableAny(ns, id, st) ==
    IF id \in st.visited THEN st
    ELSE LET st1 == [st EXCEPT !.visited = @ \cup {id}, !.out = Append(@, id),
                               !.log = Append(@, id)]
         IN  IF ~Has(ns, id) THEN st1 ELSE VisitReachableDeps(ns, id, 1, st1)

VisitReachable(ns, id, st) ==
    IF id \in st.visited THEN st
    ELSE LET st1 == [st EXCEPT !.visited = @ \cup {id}, !.log = Append(@, id)]
         IN  IF ~Has(ns, id) THEN st1
             ELSE VisitReachableDeps(ns, id, 1,
                                     [st1 EXCEPT !.out = Append(@, id)])

VisitReachableDeps(ns, id, i, st) ==
    IF i > Len(ns[id]) THEN st
    ELSE VisitReachableDeps(ns, id, i + 1, VisitReachable(ns, ns[id][i], st))

\* filterDAGFromRoot, lines 7-24
FilteredRun(ns, rootId) == VisitReachable(ns, rootId, NoVisits)

Filtered(ns, rootId) == FilteredRun(ns, rootId).out

\* a call of a builder utility on the item map
BuilderCall(fn, id, out, visits) ==
    /\ pc = "start"
    /\ builderCall.fn = "none"
    /\ builderCall' = [fn |-> fn, id |-> id, out |-> out, visits |-> visits]
    /\ UNCHANGED <<pc, calls, before, filteredDag>>
    /\ UNCHANGED assignVars
    /\ UNCHANGED execVars

getAncestors(id) ==
    BuilderCall("getAncestors", id, Ancestors(nodes, id),
                AncestorsRun(nodes, id).log)

getDescendants(id) ==
    BuilderCall("getDescendants", id, Descendants(nodes, id),
                DescendantsRun(nodes, id).log)

filterDAGFromRoot(rootId) ==
    BuilderCall("filterDAGFromRoot", rootId, Filtered(nodes, rootId),
                FilteredRun(nodes, rootId).log)

\* position of an identifier in the key order of a map (0: no key)
KeyIndex(keys, d) ==
    IF d \in Range(keys) THEN CHOOSE p \in 1..Len(keys) : keys[p] = d ELSE 0

\* the Map filterDAGFromRoot returned: the kept items in insertion order with
\* their dependency lists as they were
FilteredMap(ns, keys) ==
    [p \in 1..Len(keys) |->
        [j \in 1..Len(ns[keys[p]]) |-> KeyIndex(keys, ns[keys[p]][j])]]

\* the items of a list of positions of the filtered map
ItemsAt(keys, ps) == [j \in 1..Len(ps) |-> keys[ps[j]]]

\* buildLeveledDAG(filterDAGFromRoot(nodes, rootId))
buildLeveledDAGFiltered ==
    /\ builderCall.fn = "filterDAGFromRoot"
    /\ ~filteredDag.called
    /\ LET keys == builderCall.out
           dag == LeveledDAG(FilteredMap(nodes, keys))
       IN  filteredDag' =
               [called |-> TRUE,
                thrown |-> dag.thrown,
                levels |-> [k \in 1..Len(dag.levels) |->
                               ItemsAt(keys, dag.levels[k])],
                roots  |-> ItemsAt(keys, dag.roots),
                leaves |-> ItemsAt(keys, dag.leaves)]
    /\ UNCHANGED <<pc, builderCall, calls, before>>
    /\ UNCHANGED assignVars
    /\ UNCHANGED execVars

NextFilter ==
    \/ \E rootId \in DepIds : filterDAGFromRoot(rootId)
    \/ buildLeveledDAGFiltered

SpecFilter == Init /\ [][NextFilter]_vars

NextBuilder ==
    \/ \E id \in DepIds : getAncestors(id)
    \/ \E id \in DepIds : getDescendants(id)
    \/ \E rootId \in DepIds : filterDAGFromRoot(rootId)

SpecBuilder == Init /\ [][NextBuilder]_vars

\* one call on the item map, of the assigner or of a builder utility (none
\* of them reads what another writes); a call of buildLeveledDAG that has
\* started keeps running
NextTraversals ==
    \/ builderCall.fn = "none" /\ NextLevels
    \/ NextBuilder

SpecTraversals ==
    Init /\ [][NextTraversals]_vars /\ WF_vars(ProcessLevel)
         /\ WF_vars(ThrowCircular) /\ WF_vars(ReturnDAG)

----------------------------------------------------------------------------
(* Graph-theoretic reference definitions used by the properties *)

Keys == 1..Len(nodes)

\* the in-graph dependencies of an item, as a set
InDeps(ns, i) == {d \in Range(ns[i]) : Has(ns, d)}

RECURSIVE Closure(_, _, _)
Closure(ns, S, k) ==
    IF k = 0 THEN S
    ELSE Closure(ns, S \cup UNION {InDeps(ns, j) : j \in S}, k - 1)

\* everything reachable from i along one or more in-graph dependency edges
TransDeps(ns, i) == Closure(ns, InDeps(ns, i), Len(ns))

OnCycle(ns, i) == i \in TransDeps(ns, i)

HasCycle(ns) == \E i \in 1..Len(ns) : OnCycle(ns, i)

\* the dependency list names some in-map identifier more than once
RepeatsDep(ns, i) ==
    \E a, b \in 1..Len(ns[i]) : a # b /\ ns[i][a] = ns[i][b] /\ Has(ns, ns[i][a])

SetMax(S) == CHOOSE m \in S : \A x \in S : x <= m

\* position of the level of dag.levels that holds item i (0-based), if any
LevelsOf(i) == {k \in 1..Len(levels) : i \in Range(levels[k])}

Occurrences(i) ==
    Cardinality({<<k, j>> \in (1..Len(levels)) \X (1..MaxNodes + 1) :
                     j <= Len(levels[k]) /\ levels[k][j] = i})

Finished == pc \in {"thrown", "built"}

----------------------------------------------------------------------------
(* Level Assigner *)

\* C1: for every acyclic item map assignLevels ends without the cycle error and
\* gives each item level 0 when it has no in-graph dependency, else 1 + the
\* maximum level of its in-graph dependencies.
C1_AcyclicLevelsAssigned ==
    (Finished /\ ~HasCycle(nodes)) =>
        /\ pc = "built"
        /\ \A i \in Keys :
              level[i] = IF InDeps(nodes, i) = {} THEN 0
                         ELSE 1 + SetMax({level[d] : d \in InDeps(nodes, i)})

\* the level rule of C1 on the maps whose lists repeat no in-map identifier
LevelsAssignedWhenNoRepeats ==
    (Finished /\ ~HasCycle(nodes) /\ \A i \in Keys : ~RepeatsDep(nodes, i)) =>
        /\ pc = "built"
        /\ \A i \in Keys :
              level[i] = IF InDeps(nodes, i) = {} THEN 0
                         ELSE 1 + SetMax({level[d] : d \in InDeps(nodes, i)})

\* C2: in every returned leveled graph the levels partition the item map and
\* each in-map dependency of an item lies in a strictly lower level.
C2_LevelsPartitionAndOrder ==
    pc = "built" =>
        /\ \A k \in 1..Len(levels) : Range(levels[k]) \subseteq Keys
        /\ \A i \in Keys : Occurrences(i) = 1
        /\ \A i \in Keys : \A d \in InDeps(nodes, i) :
              \A ki \in LevelsOf(i) : \A kd \in LevelsOf(d) : kd < ki

C2_Witness ==
    /\ pc = "built"
    /\ Len(levels) >= 2
    /\ \E i \in Keys : \E d \in Range(nodes[i]) : ~Has(nodes, d)

\* C3 (as claimed): a cyclic map makes assignLevels fail and the identifiers
\* reported are exactly the members of a cycle.
C3_ReportsExactlyCycleMembers ==
    (Finished /\ HasCycle(nodes)) =>
        /\ pc = "thrown"
        /\ Range(cycleNodes) = {i \in Keys : OnCycle(nodes, i)}

\* an item that can never reach in-degree zero: it is on a cycle or repeats an
\* in-map dependency, or depends (transitively) on such an item
Stuck(ns, i) == OnCycle(ns, i) \/ RepeatsDep(ns, i)

Blocked(ns) ==
    {i \in 1..Len(ns) : \E j \in {i} \cup TransDeps(ns, i) : Stuck(ns, j)}

\* C3 (amended): a cyclic map makes assignLevels fail, and the identifiers
\* reported, each once and in map order, are exactly the items never assigned a
\* level: the cycle members, the items repeating an in-map dependency, and
\* everything that depends on one of those.
C3_ReportsBlockedItems ==
    (Finished /\ HasCycle(nodes)) =>
        /\ pc = "thrown"
        /\ cycleNodes = SelectSeq(KeySeq(Len(nodes)),
                                  LAMBDA i : i \in Blocked(nodes))
        /\ \A i \in Keys : OnCycle(nodes, i) => i \in Range(cycleNodes)

C3_Witness ==
    /\ pc = "thrown"
    /\ HasCycle(nodes)
    /\ \E i \in Range(cycleNodes) : ~OnCycle(nodes, i)
    /\ \E i \in Keys : i \notin Range(cycleNodes)

----------------------------------------------------------------------------
(* Level Executor *)

Called == api # "none"

\* index in dag.levels of the level that holds item i
LevelIndex(i) == CHOOSE k \in 1..Len(levels) : i \in Range(levels[k])

\* the work invocations that have started and not yet settled
InFlight == {i \in Keys : executing[i] = "running"}

\* item i has produced its Node Result
HasResult(i) == produced[i] # "none"

Unsuccessful(i) == produced[i] \in {"fail", "skipped"}

\* C4: no work invocation and no on-start callback for an item begins before
\* every item of every earlier level has produced its Node Result.
C4_LevelBarrier ==
    [][\A i \in Keys :
          (started'[i] > started[i] \/ onStart'[i] > onStart[i]) =>
              \A j \in Keys : LevelIndex(j) < LevelIndex(i) => HasResult(j)]_vars

C4_Witness ==
    /\ Called
    /\ lvl >= 2
    /\ concurrency >= 2
    /\ Len(levels[1]) >= 2
    /\ \E i \in Keys : LevelIndex(i) = lvl /\ executing[i] = "running"
    /\ \A j \in Range(levels[1]) : HasResult(j)

\* C5: when the work of an item is invoked, the work of each of its in-graph
\* dependencies has already been invoked and has produced its Node Result.
C5_DependenciesDoneBeforeWork ==
    [][\A i \in Keys :
          started'[i] > started[i] =>
              \A d \in InDeps(nodes, i) : started[d] >= 1 /\ HasResult(d)]_vars

C5_Witness ==
    /\ Called
    /\ \E i \in Keys :
          /\ executing[i] = "running"
          /\ Cardinality(InDeps(nodes, i)) >= 2
          /\ \A d \in InDeps(nodes, i) : HasResult(d)

\* C6: with a concurrency limit N >= 1 the number of work invocations started
\* and not yet resolved never exceeds N.
C6_ConcurrencyBound ==
    (Called /\ concurrency >= 1) => Cardinality(InFlight) <= concurrency

C6_Witness ==
    /\ pc = "race"
    /\ Len(levels[lvl]) > concurrency
    /\ Cardinality(InFlight) = concurrency
    /\ concurrency >= 2

\* C7: executeDAGSequential runs executeDAG with the concurrency forced to 1 and
\* the fail-fast option as passed, and never has two work invocations in flight.
C7_SequentialOneAtATime ==
    api = "executeDAGSequential" =>
        /\ Cardinality(InFlight) <= 1
        /\ concurrency = 1
        /\ callOptions.concurrency = {1}
        /\ failFast = OptValue(callOptions.failFast, DefaultFailFast)

C7_Witness ==
    /\ api = "executeDAGSequential"
    /\ pc = "race"
    /\ Len(levels[lvl]) >= 2
    /\ idx = 3
    /\ Cardinality(InFlight) = 1
    /\ failFast = FALSE

\* C8: with fail-fast, once an item of level k has an unsuccessful Node Result
\* no item of a later level is started, called back or recorded.
C8_FailFastStopsLaterLevels ==
    (Called /\ failFast) =>
        \A i, j \in Keys :
            (Unsuccessful(i) /\ LevelIndex(j) > LevelIndex(i)) =>
                /\ started[j] = 0
                /\ onStart[j] = 0
                /\ executing[j] = "none"
                /\ produced[j] = "none"
                /\ results[j] = "none"

C8_Witness ==
    /\ pc = "returned"
    /\ failFast
    /\ Len(levels) >= 2
    /\ \E i \in Range(levels[1]) : results[i] = "fail"
    /\ \E i \in Range(levels[1]) : results[i] = "ok"

\* C9: with fail-fast, once a task of a level has completed unsuccessfully no
\* task of the same level starts its work or its on-start callback afterwards.
C9_FailFastSkipsWithinLevel ==
    [][\A j \in Keys :
          (started'[j] > started[j] \/ onStart'[j] > onStart[j]) =>
              ~(failFast /\ \E i \in Keys :
                    Unsuccessful(i) /\ LevelIndex(i) = LevelIndex(j))]_vars

\* C10: without fail-fast a returned execution has invoked the work of every
\* item exactly once, recorded one result per item, and failedNodes holds
\* exactly the items whose result is unsuccessful.
C10_ContinueOnError ==
    (Called /\ ~failFast) =>
        /\ \A i \in Keys : started[i] <= 1
        /\ pc = "returned" =>
              /\ \A i \in Keys : started[i] = 1
              /\ \A i \in Keys : results[i] # "none" /\ results[i] = produced[i]
              /\ Range(failedNodes) = {i \in Keys : produced[i] # "ok"}

C10_Witness ==
    /\ pc = "returned"
    /\ ~failFast
    /\ Len(levels) >= 2
    /\ \E i \in Range(levels[1]) : results[i] = "fail"
    /\ \E j \in Range(levels[2]) : results[j] = "ok"

----------------------------------------------------------------------------
(* The returned DAGResult *)

\* a recorded Node Result that is not successful
Failed(res, i) == res[i] \in {"fail", "skipped"}

NoRepeats(q) == \A a, b \in 1..Len(q) : a # b => q[a] # q[b]

\* C11: in every returned DAGResult success is true iff failedNodes is empty,
\* and failedNodes holds exactly the identifiers whose recorded Node Result is
\* unsuccessful, each exactly once.
C11_SuccessIffNoFailures ==
    pc = "returned" =>
        /\ dagResult.success <=> dagResult.failedNodes = <<>>
        /\ Range(dagResult.failedNodes) =
               {i \in Keys : Failed(dagResult.results, i)}
        /\ NoRepeats(dagResult.failedNodes)

C11_Witness ==
    /\ pc = "returned"
    /\ ~dagResult.success
    /\ Len(dagResult.failedNodes) >= 2
    /\ \E i \in Keys : dagResult.results[i] = "ok"

\* a per-item task was created for item i (lines 25-30 calling lines 70-85)
Dispatched(i) == started[i] >= 1 \/ produced[i] = "skipped"

\* the indices in dag.levels of the levels the for-of loop has started
LevelsStarted == {k \in 1..Len(levels) : \E i \in Range(levels[k]) : Dispatched(i)}

\* C12: when execute returns, the keys of the results map are exactly the items
\* a per-item task was dispatched for, which are the items of the levels up to
\* the last one started; each entry is the Node Result produced for its item,
\* and the items of levels never reached have no entry.
C12_ResultsAreTheDispatchedItems ==
    pc = "returned" =>
        LET keys == {i \in Keys : dagResult.results[i] # "none"}
            last == IF LevelsStarted = {} THEN 0 ELSE SetMax(LevelsStarted)
        IN  /\ keys = {i \in Keys : Dispatched(i)}
            /\ keys = {i \in Keys : LevelIndex(i) <= last}
            /\ \A i \in keys : dagResult.results[i] = produced[i]
            /\ \A i \in Keys : LevelIndex(i) > last =>
                  dagResult.results[i] = "none" /\ produced[i] = "none"

C12_Witness ==
    /\ pc = "returned"
    /\ failFast
    /\ Len(levels) >= 2
    /\ Len(levels[1]) >= 2
    /\ \E i \in Range(levels[1]) : dagResult.results[i] = "fail"
    /\ \E i \in Range(levels[1]) : dagResult.results[i] = "ok"
    /\ \E j \in Range(levels[2]) : dagResult.results[j] = "none"

----------------------------------------------------------------------------
(* Rejections *)

\* the work invocation of item i has rejected
WorkRejected(i) == Len(trace[i]) = 3 /\ trace[i][3] = "rejects"

\* executeDAG has rejected, or the promise it awaits has, or the dispatch loop
\* is about to await a set that holds the rejected task
Aborting ==
    \/ pc = "rejected"
    \/ pc \in {"race", "all"} /\ awaited.outcome = "rejected"
    \/ /\ pc = "race"
       /\ awaited.outcome = "resolved"
       /\ \E i \in Keys : executing[i] = "rejected"

\* C13: once a work invocation has rejected, the execute call rejects: it
\* never returns a DAGResult and starts no later level, for every concurrency
\* limit and completion order of the other tasks in flight.
C13_RejectionAborts ==
    \A i \in Keys :
        WorkRejected(i) =>
            /\ Aborting
            /\ dagResult = NoResult
            /\ \A j \in Keys : LevelIndex(j) > LevelIndex(i) =>
                  started[j] = 0 /\ onStart[j] = 0 /\ executing[j] = "none"

C13_Witness ==
    /\ pc = "rejected"
    /\ Len(levels) >= 2
    /\ \E i, j \in Range(levels[1]) :
          /\ WorkRejected(i)
          /\ i # j
          /\ started[j] = 1
          /\ executing[j] = "running"

\* the dispatcher is not waiting on tasks that have all settled
CanGoOn ==
    pc \in {"race", "all"} =>
        \/ awaited.outcome # "pending"
        \/ \E i \in awaited.set : executing[i] \in {"running", "skipped"}

\* C14: a processor built by createProcessor never rejects: a normal return
\* gives a successful result whose logs are 'Starting <id>', 'Completed <id>';
\* a thrown Error or other value gives an unsuccessful result whose error
\* message is the Error's message or the thrown value as a string. An
\* execution driven by it never rejects and is never stuck before it returns.
C14_WrappedWorkNeverRejects ==
    (Called /\ processor = "createProcessor") =>
        /\ \A i \in Keys, fn \in FnOutcomes :
              LET r == createProcessor(i, fn)
              IN  /\ ~r.rejected
                  /\ fn.type = "return" =>
                        /\ r.success
                        /\ r.error = <<>>
                        /\ r.logs = << <<"Starting ", i>>, <<"Completed ", i>> >>
                  /\ fn.type = "Error" =>
                        ~r.success /\ r.error = <<"boom">>
                  /\ fn.type = "string" =>
                        ~r.success /\ r.error = <<"oops">>
        /\ pc # "rejected"
        /\ CanGoOn
        /\ \A i \in Keys :
              /\ ~WorkRejected(i)
              /\ executing[i] # "rejected"
              /\ produced[i] = "ok" =>
                    /\ detail[i].success
                    /\ detail[i].logs =
                          << <<"Starting ", i>>, <<"Completed ", i>> >>
              /\ produced[i] = "fail" =>
                    /\ ~detail[i].success
                    /\ detail[i].error \in {<<"boom">>, <<"oops">>}
                    /\ detail[i].logs[1] = <<"Starting ", i>>

C14_Witness ==
    /\ pc = "returned"
    /\ processor = "createProcessor"
    /\ \E i, j, k \in Keys :
          /\ detail[i].success
          /\ detail[j].error = <<"boom">>
          /\ detail[k].error = <<"oops">>
          /\ detail[k].logs = << <<"Starting ", k>>, <<"Failed ", k, ": ", "oops">> >>

----------------------------------------------------------------------------
(* Callbacks *)

----------------------------------------------------------------------------
(* Level Assigner: dependencies outside the map, roots, leaves, flattening *)

\* an identifier that is no key of the item map
Outside(ns, d) == ~Has(ns, d)

\* the item map with the outside identifiers removed from every list
Strip(ns) == [k \in 1..Len(ns) |-> depsInDag(ns, k)]

\* what the call on the item map of the state has produced
Outcome ==
    [thrown |-> pc = "thrown", levels |-> levels, roots |-> roots,
     leaves |-> leaves]

\* the steps of the call compute the function LeveledDAG
StepsComputeLeveledDAG == Finished => Outcome = LeveledDAG(nodes)

\* C16: dependency identifiers that are no keys of the map have no effect:
\* levels, roots and leaves (and failure) are those of the map with these
\* identifiers removed from every list, and none of them appears in levels,
\* roots or leaves.
C16_OutsideDependenciesIgnored ==
    Finished =>
        /\ Outcome = LeveledDAG(nodes)
        /\ Outcome = LeveledDAG(Strip(nodes))
        /\ \A k \in 1..Len(levels) : Range(levels[k]) \subseteq Keys
        /\ Range(roots) \subseteq Keys
        /\ Range(leaves) \subseteq Keys

C16_Witness ==
    /\ pc = "built"
    /\ \E i, j \in Keys :
          /\ \E d \in Range(nodes[i]) : Outside(nodes, d)
          /\ InDeps(nodes, i) = {}
          /\ level[i] = 0
          /\ \E d \in Range(nodes[j]) : Outside(nodes, d)
          /\ i \in InDeps(nodes, j)
          /\ level[j] = 1

\* C17: in every returned leveled graph, leaves is exactly the set of the
\* identifiers of level 0, the items with no in-graph dependency.
C17_LeavesAreLevelZero ==
    pc = "built" =>
        /\ NoRepeats(leaves)
        /\ Range(leaves) = {i \in Keys : InDeps(nodes, i) = {}}
        /\ Range(leaves) = {i \in Keys : level[i] = 0}
        /\ Range(leaves) = IF Len(levels) = 0 THEN {} ELSE Range(levels[1])

C17_Witness ==
    /\ pc = "built"
    /\ Len(levels) >= 2
    /\ Len(leaves) >= 2
    /\ \E i \in Range(leaves) : \E d \in Range(nodes[i]) : Outside(nodes, d)

\* C18: in every returned leveled graph, roots is exactly the set of the
\* identifiers that no item of the map lists as a dependency, and every item
\* of the last level is a root.
C18_RootsHaveNoDependents ==
    pc = "built" =>
        /\ NoRepeats(roots)
        /\ Range(roots) =
               {i \in Keys : \A j \in Keys : i \notin Range(nodes[j])}
        /\ Len(levels) > 0 => Range(levels[Len(levels)]) \subseteq Range(roots)

C18_Witness ==
    /\ pc = "built"
    /\ Len(levels) >= 2
    /\ \E i \in Range(roots) : level[i] = 0
    /\ \E i \in Range(roots) : level[i] = Len(levels) - 1
    /\ \E i \in Keys : i \notin Range(roots)

\* the indices at which item i occurs in the flattened order
Positions(i) == {p \in 1..Len(order) : order[p] = i}

\* C19: for every returned leveled graph getTopologicalOrder returns a
\* sequence as long as the item count that holds every item exactly once and
\* every in-graph dependency of an item at a smaller index than the item.
C19_TopologicalOrder ==
    pc = "ordered" =>
        /\ Len(order) = Len(nodes)
        /\ \A i \in Keys : Cardinality(Positions(i)) = 1
        /\ \A i \in Keys : \A d \in InDeps(nodes, i) :
              \A p \in Positions(i) : \E q \in Positions(d) : q < p

C19_Witness ==
    /\ pc = "ordered"
    /\ Len(levels) >= 2
    /\ Len(order) = MaxNodes
    /\ \E p, q \in 1..Len(order) :
          p < q /\ order[p] > order[q] /\ order[p] \in InDeps(nodes, order[q])

----------------------------------------------------------------------------
(* The empty item map *)

\* C20: on an empty item map assignLevels succeeds with no levels, no roots and
\* no leaves; execute on that graph invokes no work and returns success with
\* an empty results map.
C20_EmptyMap ==
    Len(nodes) = 0 =>
        /\ pc # "thrown"
        /\ pc \notin {"start", "leveling"} =>
              levels = <<>> /\ roots = <<>> /\ leaves = <<>>
        /\ Called =>
              /\ pc = "returned"
              /\ dagResult = [success |-> TRUE, results |-> <<>>,
                               failedNodes |-> <<>>]
              /\ DOMAIN started = {}
              /\ lvl = 1

C20_Witness ==
    /\ Len(nodes) = 0
    /\ pc = "returned"
    /\ api = "executeDAG"
    /\ dagResult.success

----------------------------------------------------------------------------
(* Self-dependencies *)

SelfDependent(ns, i) == i \in Range(ns[i])

\* C21: an item that lists its own identifier among its dependencies is never
\* assigned a level: assignLevels fails with the cycle error and reports that
\* identifier, whatever the rest of the graph is.
C21_SelfDependencyIsReported ==
    \A i \in Keys :
        SelfDependent(nodes, i) =>
            /\ level[i] = Undefined
            /\ pc \in {"start", "leveling", "thrown"}
            /\ pc = "leveling" => nodeLevel[i] = Undefined
            /\ pc = "thrown" => i \in Range(cycleNodes)

C21_Witness ==
    /\ pc = "thrown"
    /\ \E i, j \in Keys :
          /\ SelfDependent(nodes, i)
          /\ i \in Range(cycleNodes)
          /\ ~SelfDependent(nodes, j)
          /\ level[j] = 0
          /\ j \notin Range(cycleNodes)

----------------------------------------------------------------------------
(* Builder utilities *)

\* the in-map identifiers reachable from id along one or more dependency edges
ReachableDeps(ns, id) == IF Has(ns, id) THEN TransDeps(ns, id) ELSE {}

\* item j depends on id, directly or through in-map items
DependsOn(ns, j, id) ==
    \/ id \in Range(ns[j])
    \/ \E d \in TransDeps(ns, j) : id \in Range(ns[d])

AncestorsCalled == builderCall.fn = "getAncestors"

DescendantsCalled == builderCall.fn = "getDescendants"

FilterCalled == builderCall.fn = "filterDAGFromRoot"

\* getAncestors returns the identifiers reachable along dependency edges
AncestorsAreReachableDeps ==
    AncestorsCalled =>
        /\ NoRepeats(builderCall.out)
        /\ Range(builderCall.out) = ReachableDeps(nodes, builderCall.id)

\* C22: for every item map, acyclic or not, and every id, getAncestors
\* returns exactly the in-map identifiers reachable from id along one or more
\* dependency edges through in-map items, and never id itself.
C22_AncestorsExact ==
    AncestorsCalled =>
        /\ Range(builderCall.out) = ReachableDeps(nodes, builderCall.id)
        /\ builderCall.id \notin Range(builderCall.out)

\* getDescendants returns the items that depend on id
DescendantsAreDependents ==
    DescendantsCalled =>
        /\ NoRepeats(builderCall.out)
        /\ Range(builderCall.out) =
               {j \in Keys : DependsOn(nodes, j, builderCall.id)}

\* C23: for every item map, acyclic or not, and every id, getDescendants
\* returns exactly the map items that depend on id directly or transitively,
\* and never id itself.
C23_DescendantsExact ==
    DescendantsCalled =>
        /\ Range(builderCall.out) =
               {j \in Keys : DependsOn(nodes, j, builderCall.id)}
        /\ builderCall.id \notin Range(builderCall.out)

\* C24: filterDAGFromRoot returns the empty map when root is no key, and
\* otherwise exactly the entries of root and of getAncestors(items, root):
\* unrelated items are left out, identifiers outside the map are not added,
\* and the in-map dependencies of every retained item are retained.
C24_FilterKeepsRootAndAncestors ==
    FilterCalled =>
        LET root == builderCall.id
            kept == Range(builderCall.out)
        IN  /\ NoRepeats(builderCall.out)
            /\ ~Has(nodes, root) => builderCall.out = <<>>
            /\ Has(nodes, root) =>
                  /\ kept = {root} \cup Range(Ancestors(nodes, root))
                  /\ kept = {root} \cup TransDeps(nodes, root)
            /\ kept \subseteq Keys
            /\ \A i \in kept : InDeps(nodes, i) \subseteq kept

C24_Witness ==
    /\ FilterCalled
    /\ Has(nodes, builderCall.id)
    /\ Len(builderCall.out) = 2
    /\ Len(nodes) = 3
    /\ \E i \in Range(builderCall.out) :
          \E d \in Range(nodes[i]) : Outside(nodes, d)

----------------------------------------------------------------------------
(* Defaults *)

\* C26: execute called without options behaves like concurrency 4, failFast
\* true and no callbacks: at most 4 work invocations are in flight within a
\* level, and no level after the first level containing a failure is run.
C26_DefaultOptions ==
    (Called /\ callOptions = NoOptions) =>
        /\ concurrency = 4
        /\ failFast = TRUE
        /\ Cardinality(InFlight) <= 4
        /\ Size(executing) <= 4
        /\ \A i, j \in Keys :
              (Unsuccessful(i) /\ LevelIndex(j) > LevelIndex(i)) =>
                  started[j] = 0 /\ executing[j] = "none"

C26_Witness ==
    /\ Called
    /\ callOptions = NoOptions
    /\ Len(levels[1]) >= 5
    /\ pc = "race"
    /\ Cardinality(InFlight) = 4
    /\ started[levels[1][5]] = 0

----------------------------------------------------------------------------
(* Fail-fast within a level, order of failedNodes, dispatch order *)

\* C27: with fail-fast a failing task does not interrupt or discard the tasks
\* of its level that were already dispatched: each is running or has completed
\* with on-complete fired and its own (not a skipped) result, that result is
\* the one recorded, and if it failed its identifier is in failedNodes too.
C27_DispatchedTasksComplete ==
    (Called /\ failFast) =>
        \A i \in Keys :
            started[i] = 1 =>
                /\ \/ executing[i] \in {"running", "rejected"}
                   \/ /\ executing[i] = "none"
                      /\ produced[i] \in {"ok", "fail"}
                      /\ onComplete[i] = 1
                /\ pc = "returned" =>
                      /\ results[i] = produced[i]
                      /\ results[i] \in {"ok", "fail"}
                      /\ results[i] = "fail" =>
                            Cardinality({p \in 1..Len(failedNodes) :
                                             failedNodes[p] = i}) = 1

C27_Witness ==
    /\ pc = "returned"
    /\ failFast
    /\ Len(levels) >= 2
    /\ Len(levels[1]) >= 2
    /\ Len(failedNodes) = 2
    /\ onComplete[failedNodes[2]] = 1
    /\ \A p \in 1..Len(failedNodes) :
          failedNodes[p] \in Range(levels[1]) /\ results[failedNodes[p]] = "fail"

\* the identifiers of the unsuccessful results of a results array, in order
RECURSIVE FailedIds(_)
FailedIds(lr) ==
    IF lr = <<>> THEN <<>>
    ELSE (IF Head(lr).kind # "ok" THEN <<Head(lr).node>> ELSE <<>>)
             \o FailedIds(Tail(lr))

LevelMajor(fn) ==
    \A p, q \in 1..Len(fn) : p < q => LevelIndex(fn[p]) <= LevelIndex(fn[q])

\* C28: failedNodes is level-major, and within a level the failed identifiers
\* are in the order in which their tasks completed: a completing task is put
\* last in the level's results, and the failed identifiers of the level are
\* appended to failedNodes in that order.
C28_FailedNodesOrder ==
    [][/\ \A i \in DOMAIN produced :
             (produced[i] = "none" /\ produced'[i] # "none") =>
                 levelResults' =
                     Append(levelResults, [node |-> i, kind |-> produced'[i]])
       /\ failedNodes' # failedNodes =>
             /\ pc = "all"
             /\ failedNodes' = failedNodes \o FailedIds(levelResults)
             /\ \A r \in Range(levelResults) : LevelIndex(r.node) = lvl
       /\ pc' \in {"race", "all", "returned", "rejected"} =>
             LevelMajor(failedNodes')]_vars

C28_Witness ==
    /\ pc = "returned"
    /\ concurrency >= 2
    /\ Len(levels) >= 2
    /\ Len(failedNodes) = 3
    /\ failedNodes[1] \in Range(levels[1])
    /\ failedNodes[2] \in Range(levels[1])
    /\ failedNodes[3] \in Range(levels[2])
    /\ failedNodes[1] = levels[1][2]
    /\ failedNodes[2] = levels[1][1]

\* s is an initial segment of t
IsPrefix(s, t) == Len(s) <= Len(t) /\ \A p \in 1..Len(s) : s[p] = t[p]

\* C29: within a level the work invocations start in the level's item order;
\* with the level barrier the sequence of all invocations is an initial
\* segment of the flattened levels, and with concurrency 1 and no failure a
\* returned execution has invoked the work in exactly the flattened order.
C29_DispatchInItemOrder ==
    Called =>
        /\ IsPrefix(invoked, Flat(levels))
        /\ \A i \in Keys :
              started[i] = Cardinality({p \in 1..Len(invoked) : invoked[p] = i})
        /\ (pc = "returned" /\ concurrency = 1 /\ failedNodes = <<>>) =>
              invoked = Flat(levels)

C29_Witness ==
    /\ pc = "returned"
    /\ concurrency = 1
    /\ failedNodes = <<>>
    /\ Len(levels) = 2
    /\ Len(invoked) = 3
    /\ invoked # KeySeq(3)

\* items of the current level are still to be dispatched
Undispatched == lvl \in 1..Len(levels) /\ idx <= Len(levels[lvl])

\* C30: within a level the dispatcher is work-conserving: while items remain
\* it waits only with as many tasks in flight as the limit, and as soon as
\* one awaited task has completed the dispatch loop can go on, whether the
\* other tasks of the batch are still in flight or not (unless the awaited
\* race has rejected, which ends the call).
C30_WorkConserving ==
    (Called /\ pc \in {"race", "all"}) =>
        /\ (awaited.outcome = "pending" /\ Undispatched) =>
              /\ pc = "race"
              /\ awaited.set = InFlight
              /\ Cardinality(InFlight) >= concurrency
        /\ (/\ pc = "race"
            /\ awaited.outcome # "rejected"
            /\ \E i \in awaited.set : executing[i] = "none") =>
              /\ awaited.outcome = "resolved"
              /\ ENABLED ResumeRace

\* when the dispatch loop goes on with items left, the next item's work is
\* invoked in that step
ResumeDispatchesNext ==
    [][(pc = "race" /\ awaited.outcome = "resolved" /\ Undispatched
            /\ (pc' # pc \/ idx' # idx \/ awaited'.set # awaited.set)) =>
          /\ idx' > idx
          /\ started'[levels[lvl][idx]] = started[levels[lvl][idx]] + 1]_vars

C30_Witness ==
    /\ pc = "race"
    /\ concurrency = 2
    /\ awaited.outcome = "resolved"
    /\ Undispatched
    /\ Cardinality(awaited.set) = 2
    /\ \E i, j \in awaited.set : executing[i] = "none" /\ executing[j] = "running"

----------------------------------------------------------------------------
(* Two calls *)

\* the items whose work is in flight in the call with locals rec
CallInFlight(rec) == {i \in Keys : rec.executing[i] = "running"}

OwnFailure(rec) == \E i \in Keys : rec.produced[i] = "fail"

\* C25: the executor keeps no state across calls: for two calls on one graph,
\* overlapping or not, the stop flag of a call is set only by a failure of its
\* own and nothing of it is skipped, so a call without a failure of its own
\* runs every level; each call keeps to its own concurrency limit; and its
\* results map and failed list hold only the results of its own invocations.
C25_CallsAreIndependent ==
    \A c \in DOMAIN calls :
        LET rec == calls[c]
        IN  /\ rec.shouldStop => (rec.failFast /\ OwnFailure(rec))
            /\ \A i \in Keys : rec.executing[i] # "skipped"
                                 /\ rec.produced[i] # "skipped"
            /\ (rec.pc = "returned" /\ ~OwnFailure(rec)) =>
                  /\ rec.dagResult.success
                  /\ \A i \in Keys : rec.started[i] = 1 /\ rec.results[i] = "ok"
            /\ Cardinality(CallInFlight(rec)) <= rec.concurrency
            /\ \A i \in Keys :
                  rec.results[i] # "none" => rec.results[i] = rec.produced[i]
            /\ Range(rec.failedNodes) \subseteq
                   {i \in Keys : rec.produced[i] = "fail"}

C25_Witness ==
    /\ Len(calls) = 2
    /\ Len(levels) = 2
    /\ calls[1].pc = "returned"
    /\ calls[1].shouldStop
    /\ calls[1].results[levels[2][1]] = "none"
    /\ calls[2].overlaps
    /\ calls[2].pc = "returned"
    /\ calls[2].dagResult.success
    /\ calls[2].results[levels[2][1]] = "ok"

----------------------------------------------------------------------------
(* Level Assigner: repeated entries, frame, shape of the levels *)

\* a dependency list with every identifier kept at its first entry only
RECURSIVE Once(_)
Once(l) ==
    IF l = <<>> THEN <<>>
    ELSE LET front == Once(SubSeq(l, 1, Len(l) - 1))
         IN  SetAdd(front, l[Len(l)])

\* the item map with every dependency list read as a set
AsSets(ns) == [k \in 1..Len(ns) |-> Once(ns[k])]

\* the decrements an item can receive: the dependents sets that hold it
Decrements(i) == Cardinality({d \in Keys : i \in Range(dependents[d])})

\* C31: a dependency list is treated as a set: an item whose list names an
\* in-map identifier more than once is leveled as if it were named once (an
\* acyclic map with a repeated entry is leveled, not reported as a cycle), and
\* the in-degree counted for an item equals the number of decrements it can
\* receive.
C31_RepeatedDependencyAsOnce ==
    /\ Finished => Outcome = LeveledDAG(AsSets(nodes))
    /\ pc # "start" =>
          \A i \in Keys : InitialInDegree(nodes)[i] = Decrements(i)

\* the in-degree of C31 on the maps whose lists repeat no in-map identifier
InDegreeIsDecrementsWhenNoRepeats ==
    (pc # "start" /\ \A i \in Keys : ~RepeatsDep(nodes, i)) =>
        \A i \in Keys : InitialInDegree(nodes)[i] = Decrements(i)

----------------------------------------------------------------------------
(* Level Executor: termination, invocation counts, frame *)

\* the dispatcher is suspended at an await
Waiting == pc \in {"race", "all"}

\* C32: when every work invocation resolves to a Node Result and no callback
\* throws, every execute call eventually returns a DAGResult, for every
\* concurrency limit, both fail-fast settings and every completion order; and
\* the dispatcher never waits on tasks that have all completed already: its
\* await has then resolved.
C32_EveryCallReturns ==
    /\ Called ~> (pc = "returned")
    /\ [](pc = "returned" =>
            dagResult = DAGResultOf(results, failedNodes))
    /\ []((Waiting /\ InFlight = {}) => awaited.outcome = "resolved")

C32_Witness ==
    /\ pc = "returned"
    /\ concurrency = MaxConcurrency
    /\ ~failFast
    /\ \E i, j \in Keys :
          /\ i < j
          /\ LevelIndex(i) = LevelIndex(j)
          /\ failedNodes = <<j, i>>

\* the task of item i has settled with a Node Result, or was never created
Settled(i) == executing[i] = "none"

\* C33: in one execute call the work function is invoked at most once per
\* item, also when completions interleave with dispatch; for every item the
\* on-start calls equal the work invocations, and so do the on-complete calls
\* once its work has resolved (for every item when the call has returned).
C33_InvokedAtMostOnce ==
    Called =>
        /\ NoRepeats(invoked)
        /\ \A i \in Keys :
              /\ started[i] <= 1
              /\ started[i] = Cardinality({p \in 1..Len(invoked) : invoked[p] = i})
              /\ onStart[i] = started[i]
              /\ Settled(i) => onComplete[i] = started[i]
              /\ ~Settled(i) => onComplete[i] = 0
              /\ pc = "returned" => onComplete[i] = started[i]

C33_Witness ==
    /\ pc = "all"
    /\ concurrency = MaxConcurrency
    /\ Len(levels[1]) = 3
    /\ levelResults # <<>>
    /\ levelResults[1].node = levels[1][2]
    /\ executing[levels[1][1]] = "running"
    /\ started[levels[1][3]] = 1
    /\ onComplete[levels[1][2]] = 1

\* C34: assignLevels writes nothing but the level field of items: the item map
\* keeps its identifiers and dependency lists, and a call that fails with the
\* cycle error is not atomic: every item resolved before the failure has its
\* newly written level, every reported item has the level field it had before
\* the call.
C34_WritesLevelsOnly ==
    /\ [][nodes' = nodes]_vars
    /\ [](pc = "built" =>
            \A i \in Keys : level[i] = LevelIndex(i) - 1)
    /\ [](pc = "thrown" =>
            \A i \in Keys :
                IF i \in Range(cycleNodes)
                THEN LevelsOf(i) = {} /\ level[i] = before[i]
                ELSE level[i] = LevelIndex(i) - 1)

C34_Witness ==
    /\ pc = "thrown"
    /\ \E i, j \in Keys :
          /\ i \in Range(cycleNodes)
          /\ before[i] = StaleLevel
          /\ level[i] = StaleLevel
          /\ j \notin Range(cycleNodes)
          /\ before[j] = StaleLevel
          /\ level[j] = 1

\* the number of items on the longest chain of in-graph dependencies that
\* ends in item i (on an acyclic map)
RECURSIVE ChainLength(_, _)
ChainLength(ns, i) ==
    IF InDeps(ns, i) = {} THEN 1
    ELSE 1 + SetMax({ChainLength(ns, d) : d \in InDeps(ns, i)})

\* C35: a returned leveled graph has no empty level; when the map is not empty
\* the number of levels is the number of items on the longest in-graph
\* dependency chain; every item of a level k >= 1 has an in-graph dependency
\* at level exactly k - 1.
C35_LevelsAreChainDepths ==
    pc = "built" =>
        /\ \A k \in 1..Len(levels) : levels[k] # <<>>
        /\ Len(nodes) = 0 => levels = <<>>
        /\ Len(nodes) > 0 =>
              Len(levels) = SetMax({ChainLength(nodes, i) : i \in Keys})
        /\ \A i \in Keys : level[i] = ChainLength(nodes, i) - 1
        /\ \A i \in Keys :
              level[i] >= 1 => \E d \in InDeps(nodes, i) : level[d] = level[i] - 1

C35_Witness ==
    /\ pc = "built"
    /\ Len(levels) = 3
    /\ \E i \in Keys :
          /\ level[i] = 2
          /\ {level[d] : d \in InDeps(nodes, i)} = {0, 1}

----------------------------------------------------------------------------
(* Builder utilities: converse, filtering and leveling, termination *)

\* C36: ancestorsOf and descendantsOf are converse on the keys of the map: x
\* is in ancestorsOf(items, y) if and only if y is in descendantsOf(items, x).
C36_AncestorsConverseOfDescendants ==
    /\ (AncestorsCalled /\ builderCall.id \in Keys) =>
          \A x \in Keys :
              x \in Range(builderCall.out) <=>
                  builderCall.id \in Range(Descendants(nodes, x))
    /\ (DescendantsCalled /\ builderCall.id \in Keys) =>
          \A y \in Keys :
              y \in Range(builderCall.out) <=>
                  builderCall.id \in Range(Ancestors(nodes, y))

C36_Witness ==
    /\ AncestorsCalled
    /\ builderCall.id \in Keys
    /\ \E x \in Range(builderCall.out) :
          /\ x \notin InDeps(nodes, builderCall.id)
          /\ x # builderCall.id
    /\ \E x \in Keys : x \notin Range(builderCall.out)

\* the level of item i in a list of levels
LevelIn(lv, i) == (CHOOSE k \in 1..Len(lv) : i \in Range(lv[k])) - 1

FilteredAndLeveled == FilterCalled /\ filteredDag.called

\* leveling the filtered map succeeds, gives every kept item the level it has
\* in the full map, and reports the root as the only root
LevelsPreserved ==
    /\ ~filteredDag.thrown
    /\ ~LeveledDAG(nodes).thrown
    /\ \A i \in Range(builderCall.out) :
          LevelIn(filteredDag.levels, i) = LevelIn(LeveledDAG(nodes).levels, i)
    /\ filteredDag.roots = <<builderCall.id>>

\* C37: for an acyclic item map and a root in it, assignLevels applied to
\* reachableFrom(items, root) succeeds, gives every kept item the level that
\* assignLevels gives it on the full map, and reports roots = [root].
C37_FilteringPreservesLevels ==
    (FilteredAndLeveled /\ builderCall.id \in Keys /\ ~HasCycle(nodes)) =>
        LevelsPreserved

\* the property of C37 on the maps whose lists repeat no in-map identifier
FilteringPreservesLevelsWhenNoRepeats ==
    (/\ FilteredAndLeveled
     /\ builderCall.id \in Keys
     /\ ~HasCycle(nodes)
     /\ \A i \in Keys : ~RepeatsDep(nodes, i)) =>
        LevelsPreserved

\* the identifiers a traversal of the item map can meet
Identifiers == Keys \cup UNION {Range(nodes[k]) : k \in Keys}

\* C38: assignLevels, reachableFrom, ancestorsOf and descendantsOf terminate on
\* every finite item map, with cycles, self-dependencies and dependencies
\* outside the map: a started assignLevels call ends (returning or with the
\* cycle error) having processed each item at most once, and a traversal goes
\* past its visited check at most once per identifier.
C38_TraversalsTerminate ==
    /\ (pc = "leveling") ~> Finished
    /\ [](/\ processedCount <= Len(nodes)
          /\ \A i \in Keys : Occurrences(i) <= 1)
    /\ [](builderCall.fn # "none" =>
            /\ NoRepeats(builderCall.visits)
            /\ Range(builderCall.visits) \subseteq
                   Identifiers \cup {builderCall.id})

C38_Witness ==
    /\ FilterCalled
    /\ \E i, j \in Keys : i # j /\ i \in TransDeps(nodes, j)
                            /\ j \in TransDeps(nodes, i)
    /\ \E d \in Range(builderCall.visits) : Outside(nodes, d)
    /\ Len(builderCall.visits) = Cardinality(Identifiers)

\* the leveled graph: the item map with the level fields, levels, roots, leaves
Graph == <<nodes, level, levels, roots, leaves>>

\* C39: execute never modifies the leveled graph it is given: the item map,
\* the levels, roots, leaves and every item's identifier, dependency list and
\* level field are unchanged by every step of an execution, whether it
\* returns, stops on fail-fast or rejects; the graph stays the one
\* assignLevels returned.
C39_GraphUnchanged ==
    /\ [][api' # "none" => Graph' = Graph]_vars
    /\ [](Called =>
            /\ Outcome = LeveledDAG(nodes)
            /\ \A i \in Keys : level[i] = LevelIn(levels, i))

C39_Witness ==
    /\ pc = "returned"
    /\ shouldStop
    /\ lvl < Len(levels)
    /\ \A i \in Keys : level[i] = LevelIn(levels, i)
    /\ \E i \in Keys : level[i] = 1 /\ started[i] = 0

====
